---- MODULE Spec2Model ----
(***************************************************************************)
(* Model of the referral-points redemption server (Express handlers over   *)
(* a MySQL pool and the Shopify Admin API).  Every request handler is a    *)
(* process that yields at each `await`; the database runs one statement at *)
(* a time (autocommit, no transaction, no row lock), and the Shopify calls *)
(* are remote steps that may fail.                                         *)
(***************************************************************************)
EXTENDS Integers, Sequences, FiniteSets, TLC

(* ---------------------------- bounds ----------------------------------- *)
MaxRequests == 2        \* requests received in one behaviour
MaxInFlight == 2        \* handlers that may be between two awaits at once
InitPoints == 3         \* balance of the user row at start

(* ------------------------ program constants ---------------------------- *)
connectionLimit == 10
GraceSeconds == 60

(* --------------------------- value domains ----------------------------- *)
NULL == <<>>
undefined == "undefined"
NoRow == [user_id |-> 0, email |-> "", points |-> 0, referral_count |-> 0,
          last_discount_code |-> NULL, discount_code_id |-> NULL,
          milestones |-> <<>>]

UserIds == {1}
UserEmail == "user@example.com"
UnknownEmail == "nobody@example.com"
Affordable == InitPoints - 1      \* can be redeemed once, not twice
Amounts == {-(InitPoints + 2), Affordable}

(* Request bodies: the amounts and the reward kinds for the known user,   *)
(* and one body for each way a request can be malformed or name nobody.   *)
Malformed == {<<"", Affordable>>, <<UserEmail, 0>>, <<UnknownEmail, Affordable>>}
RedeemKinds == {<<"store_credit", "dynamic">>, <<"gift_card", "10CAD">>,
                <<"discount", undefined>>}
RedeemBodies ==
  {[email |-> UserEmail, amount |-> a, redeemType |-> "discount", redeemValue |-> "10CAD"] :
     a \in Amounts}
  \cup {[email |-> UserEmail, amount |-> Affordable, redeemType |-> k[1], redeemValue |-> k[2]] :
          k \in RedeemKinds}
  \cup {[email |-> m[1], amount |-> m[2], redeemType |-> "discount", redeemValue |-> "10CAD"] :
          m \in Malformed}
CancelBodies ==
  {[email |-> UserEmail, amount |-> a] : a \in Amounts}
  \cup {[email |-> m[1], amount |-> m[2]] : m \in Malformed}
MarkBodies ==
  {[email |-> UserEmail, usedCode |-> <<"POINTS", n>>] : n \in 1..2}
  \cup {[email |-> "", usedCode |-> <<"POINTS", 1>>], [email |-> UserEmail, usedCode |-> NULL],
        [email |-> UnknownEmail, usedCode |-> <<"POINTS", 1>>]}
MilestoneBodies ==
  {[email |-> UserEmail, amount |-> t] : t \in {5, 10, 15, 20}}
  \cup {[email |-> m[1], amount |-> IF m[2] = 0 THEN 0 ELSE 10] : m \in Malformed}
Builds == {"server.js", "part_000"}
Slots == 1..MaxInFlight
ReferralCount == 12

VARIABLES
  build,          \* which of the two source files is the running server
  users,          \* table users: user_id -> row
  user_actions,   \* table user_actions: sequence of inserted rows
  shopify,        \* discounts held by the Shopify shop, by creation order
  reqs,           \* slot -> the handler invocation running in it
  received,       \* number of requests received so far
  checkedOut,     \* connections currently acquired from the pool
  debited,        \* history: user_id -> sum of the debits written by redeem
  refunded,       \* history: user_id -> sum of the refunds written by cancel-redeem
  lastRedeem,     \* history: the redeem (and its cancel) that finished last, alone
  lastDone,       \* history: the request answered last, if it ran alone and got 200
  response        \* the response sent by the step just taken, if it sent one

vars == <<build, users, user_actions, shopify, reqs, received, checkedOut,
          debited, refunded, lastRedeem, lastDone, response>>

(* JavaScript truthiness of the values the handlers test with `!x`:       *)
(* strings (email), numbers (points) and nullable columns (code, id).     *)
FalsyString(v) == v = "" \/ v = undefined
FalsyNumber(n) == n = 0
FalsyColumn(c) == c = NULL \/ c = <<"">>

(* parseInt(x, 10) on an integer JSON number is that integer. *)
parseInt(n) == n

(* A handler invocation: its inputs (req.body), its position, its locals  *)
(* and its response.  solo and prePoints are history: whether the request *)
(* ran with no other request in flight, and the balance when it arrived.  *)
Idle == [pc |-> "idle", op |-> "none", email |-> "", amount |-> 0,
         redeemType |-> "", redeemValue |-> "", usedCode |-> NULL,
         connection |-> FALSE, user |-> NoRow, newPoints |-> 0,
         generatedCode |-> NULL, discountId |-> NULL,
         calls |-> 0, solo |-> FALSE, prePoints |-> 0]

NoResponse == [op |-> "none", status |-> 0, error |-> "", discountCode |-> NULL,
               newPoints |-> 0]

NoRedeem == [kind |-> "none", email |-> "", amount |-> 0, prePoints |-> 0]

NoDone == [op |-> "none", email |-> "", amount |-> 0, usedCode |-> NULL,
           times |-> 0, status |-> 0]

InFlight == {s \in Slots : reqs[s].pc # "idle"}

(* SELECT * FROM users WHERE email = ? *)
SelectByEmail(email) == {users[u] : u \in {v \in UserIds : users[v].email = email}}

(* The row a finished handler leaves behind, as seen by its email. *)
RowOf(email) ==
  IF SelectByEmail(email) = {} THEN NoRow ELSE CHOOSE row \in SelectByEmail(email) : TRUE

(* ----------------------- request bookkeeping --------------------------- *)
LeastIdle(s) == reqs[s].pc = "idle" /\ \A t \in Slots : t < s => reqs[t].pc # "idle"

Overlapped(rq) == IF rq.pc = "idle" THEN rq ELSE [rq EXCEPT !.solo = FALSE]

(* The history kept of a finished request.  A redeem that answered 200    *)
(* and never overlapped another request is remembered with the balance    *)
(* it found; a cancel-redeem of the same amount for the same user that    *)
(* follows it directly, again alone and answered 200, turns the record   *)
(* into a round trip.  Anything else erases it.                           *)
Summary(rq, status) ==
  IF rq.op = "redeem" /\ status = 200 /\ rq.solo
  THEN [kind |-> "redeem", email |-> rq.email, amount |-> rq.amount,
        prePoints |-> rq.prePoints]
  ELSE IF /\ rq.op = "cancel-redeem" /\ status = 200 /\ rq.solo
          /\ lastRedeem.kind = "redeem"
          /\ lastRedeem.email = rq.email /\ lastRedeem.amount = rq.amount
  THEN [lastRedeem EXCEPT !.kind = "redeem-cancel"]
  ELSE NoRedeem

(* The request answered last, kept when it answered 200 and never         *)
(* overlapped another request.  A request that follows it directly, again *)
(* alone, with the same operation and the same body, is the same call     *)
(* made a second time: the record then keeps the status of that call.     *)
Repeats(rq) ==
  /\ rq.solo
  /\ lastDone.times = 1
  /\ lastDone.op = rq.op /\ lastDone.email = rq.email
  /\ lastDone.amount = rq.amount /\ lastDone.usedCode = rq.usedCode

Done(rq, status) ==
  IF Repeats(rq) THEN [lastDone EXCEPT !.times = 2, !.status = status]
  ELSE IF status = 200 /\ rq.solo
  THEN [op |-> rq.op, email |-> rq.email, amount |-> rq.amount, usedCode |-> rq.usedCode,
        times |-> 1, status |-> 200]
  ELSE NoDone

(* res.status(status).json(...) and the finally block, which run in the   *)
(* same turn of the event loop: the response is sent, the connection (if  *)
(* one was acquired) goes back to the pool and the handler is over.       *)
ResponseOf(rq, status, error, discountCode, newPoints) ==
  [op |-> rq.op, status |-> status, error |-> error, discountCode |-> discountCode,
   newPoints |-> newPoints]

Released_Never(rq) == checkedOut

Released(rq) == IF rq.connection THEN checkedOut - 1 ELSE checkedOut

Finish(s, rq, status, error, discountCode, newPoints) ==
  /\ reqs' = [reqs EXCEPT ![s] = Idle]
  /\ checkedOut' = Released(rq)
  /\ response' = ResponseOf(rq, status, error, discountCode, newPoints)
  /\ lastRedeem' = Summary(rq, status)
  /\ lastDone' = Done(rq, status)

Fail(s, rq, status, error) == Finish(s, rq, status, error, NULL, 0)

(* The handler goes on to its next await. *)
Continue(s, rq) ==
  /\ reqs' = [reqs EXCEPT ![s] = rq]
  /\ response' = NoResponse
  /\ UNCHANGED <<checkedOut, lastRedeem, lastDone>>

(* pool.getConnection(): a connection is handed out while the pool has one *)
(* left; the call may also reject (connect timeout).                       *)
CanAcquire == checkedOut < connectionLimit

(* A request arrives and its handler runs up to its first database         *)
(* statement; every handler already running now overlaps it.  Arrived is   *)
(* the request as the handler first sees it.                               *)
Arrived(rq) == [rq EXCEPT !.solo = (InFlight = {}), !.prePoints = RowOf(rq.email).points]

Accept(s, rq, pc) ==
  /\ received < MaxRequests
  /\ LeastIdle(s)
  /\ CanAcquire
  /\ received' = received + 1
  /\ checkedOut' = checkedOut + 1
  /\ reqs' = [t \in Slots |->
               IF t = s THEN [Arrived(rq) EXCEPT !.connection = TRUE, !.pc = pc]
               ELSE Overlapped(reqs[t])]
  /\ response' = NoResponse
  /\ UNCHANGED <<build, users, user_actions, shopify, debited, refunded, lastRedeem,
                  lastDone>>

(* The handler answers before it holds anything across an await. *)
Reject(s, rq, status, error) ==
  /\ received < MaxRequests
  /\ LeastIdle(s)
  /\ received' = received + 1
  /\ reqs' = [t \in Slots |-> Overlapped(reqs[t])]
  /\ response' = ResponseOf(Arrived(rq), status, error, NULL, 0)
  /\ lastRedeem' = NoRedeem
  /\ lastDone' = NoDone
  /\ UNCHANGED <<build, users, user_actions, shopify, debited, refunded, checkedOut>>

(* ------------------------- Shopify Admin API --------------------------- *)
NoOptions == [rewardType |-> undefined, itemRef |-> undefined]

RewardTypeOf(options) ==
  IF FalsyString(options.rewardType) THEN "fixed_amount" ELSE options.rewardType

(* The synchronous part of createShopifyDiscountCode throws before any     *)
(* fetch when the free-product item is missing, or when amountOff is not a *)
(* string ('dynamic' aside) and .replace is called on it.                  *)
CreateThrowsBeforeFetch(amountOff, options) ==
  IF RewardTypeOf(options) = "free_product"
  THEN FalsyString(options.itemRef)
  ELSE amountOff # "dynamic" /\ amountOff = undefined

(* numericValue in cents: pointsToRedeem / 100 for 'dynamic', else the     *)
(* digits of amountOff, or 5 when it has none.                             *)
DigitsOf(amountOff) ==
  IF amountOff = "10CAD" THEN 10 ELSE IF amountOff = "100" THEN 100 ELSE 0

NumericValueCents(amountOff, pointsToRedeem) ==
  IF amountOff = "dynamic" THEN pointsToRedeem
  ELSE IF DigitsOf(amountOff) = 0 THEN 500 ELSE DigitsOf(amountOff) * 100

BasicCodeDiscount_Stackable(amountOff, pointsToRedeem, options, n, now) ==
  [code |-> IF RewardTypeOf(options) = "free_product" THEN <<"MILESTONEFREE", n>>
            ELSE <<"POINTS", n>>,
   rewardType |-> RewardTypeOf(options),
   amountCents |-> IF RewardTypeOf(options) = "free_product" THEN 0
                   ELSE NumericValueCents(amountOff, pointsToRedeem),
   itemRef |-> options.itemRef,
   orderDiscounts |-> TRUE, productDiscounts |-> TRUE, shippingDiscounts |-> TRUE,
   usageLimit |-> 1, appliesOncePerCustomer |-> TRUE, startsAt |-> now, endsAt |-> 0,
   updates |-> 0]

(* variables.basicCodeDiscount as sent to discountCodeBasicCreate; n is    *)
(* the random suffix of the generated code, now the time of the call (the  *)
(* callers pass the creation order as both).                               *)
BasicCodeDiscount(amountOff, pointsToRedeem, options, n, now) ==
  IF RewardTypeOf(options) = "free_product"
  THEN [code |-> <<"MILESTONEFREE", n>>, rewardType |-> "free_product",
        amountCents |-> 0, itemRef |-> options.itemRef,
        orderDiscounts |-> FALSE, productDiscounts |-> FALSE, shippingDiscounts |-> TRUE,
        usageLimit |-> 1, appliesOncePerCustomer |-> TRUE, startsAt |-> now, endsAt |-> 0,
   updates |-> 0]
  ELSE [code |-> <<"POINTS", n>>, rewardType |-> "fixed_amount",
        amountCents |-> NumericValueCents(amountOff, pointsToRedeem), itemRef |-> undefined,
        orderDiscounts |-> TRUE, productDiscounts |-> TRUE, shippingDiscounts |-> TRUE,
        usageLimit |-> 1, appliesOncePerCustomer |-> TRUE, startsAt |-> now, endsAt |-> 0,
   updates |-> 0]

(* What createShopifyDiscountCode returns for the n-th discount of the     *)
(* shop: the code Shopify stored, and the node id rewritten.               *)
CreateResult(shop, n) == [code |-> shop[n].code, discountId |-> <<"DiscountCodeBasic", n>>]

(* deactivateShopifyDiscount(discountId): read startsAt of the discount,   *)
(* then set endsAt to startsAt + 60 s.  startsAt is written once, at       *)
(* creation, so the read and the write are modelled as one remote step.    *)
DiscountIndex(discountId) == discountId[2]

DeactivatedEndsAt(startsAt) == startsAt + GraceSeconds

Deactivated_Extends(shop, discountId) ==
  [shop EXCEPT ![DiscountIndex(discountId)].endsAt =
                  (IF @ = 0 THEN shop[DiscountIndex(discountId)].startsAt ELSE @) + GraceSeconds,
               ![DiscountIndex(discountId)].updates = @ + 1]

(* updates counts the discountCodeBasicUpdate mutations Shopify applied to *)
(* the discount.                                                           *)
Deactivated(shop, discountId) ==
  [shop EXCEPT ![DiscountIndex(discountId)].endsAt =
                  DeactivatedEndsAt(shop[DiscountIndex(discountId)].startsAt),
               ![DiscountIndex(discountId)].updates = @ + 1]

(* ------------------- POST /api/referral/redeem ------------------------- *)
MissingRedeemParams(email, pointsToRedeem) ==
  FalsyString(email) \/ FalsyNumber(pointsToRedeem)

NotEnoughPoints_OffByOne(userPoints, pointsToRedeem) == userPoints + 1 < pointsToRedeem

NotEnoughPoints(userPoints, pointsToRedeem) == userPoints < pointsToRedeem

RedeemNewPoints(userPoints, pointsToRedeem) == userPoints - pointsToRedeem

RedeemActionRow_PositiveDelta(user_id, redeemType, pointsToRedeem) ==
  [user_id |-> user_id, action_type |-> <<"redeem", redeemType>>,
   points_awarded |-> pointsToRedeem]

RedeemActionRow(user_id, redeemType, pointsToRedeem) ==
  [user_id |-> user_id, action_type |-> <<"redeem", redeemType>>,
   points_awarded |-> -pointsToRedeem]

RedeemRequest(body) ==
  [Idle EXCEPT !.op = "redeem", !.email = body.email, !.amount = body.amount,
               !.redeemType = body.redeemType, !.redeemValue = body.redeemValue]

(* Lines 150-165: getConnection, then the check for missing parameters.    *)
ReceiveRedeem(s) ==
  \E body \in RedeemBodies :
    LET rq == RedeemRequest(body) IN
    \/ Reject(s, rq, 500, "getConnection failed")
    \/ /\ CanAcquire
       /\ MissingRedeemParams(rq.email, rq.amount)
       /\ Reject(s, rq, 400, "Missing email or pointsToRedeem.")
    \/ /\ ~MissingRedeemParams(rq.email, rq.amount)
       /\ Accept(s, rq, "redeem_select")

RedeemSelect(s) ==
  LET rq == reqs[s]
      rows == SelectByEmail(rq.email) IN
  /\ rq.pc = "redeem_select"
  /\ \/ Fail(s, rq, 500, "query failed")
     \/ /\ rows = {}
        /\ Fail(s, rq, 404, "User not found.")
     \/ \E user \in rows :
          IF NotEnoughPoints(user.points, rq.amount)
          THEN Fail(s, [rq EXCEPT !.user = user], 400, "Not enough points to redeem.")
          ELSE Continue(s, [rq EXCEPT !.user = user,
                                      !.newPoints = RedeemNewPoints(user.points, rq.amount),
                                      !.pc = "redeem_update"])
  /\ UNCHANGED <<build, users, user_actions, shopify, received, debited, refunded>>

(* UPDATE users SET points = ? WHERE user_id = ? *)
RedeemUpdatePoints(s) ==
  LET rq == reqs[s] IN
  /\ rq.pc = "redeem_update"
  /\ \/ /\ Fail(s, rq, 500, "query failed")
        /\ UNCHANGED <<users, debited>>
     \/ /\ users' = [u \in UserIds |->
                      IF u = rq.user.user_id THEN [users[u] EXCEPT !.points = rq.newPoints]
                      ELSE users[u]]
        /\ debited' = [u \in UserIds |->
                        IF u = rq.user.user_id THEN debited[u] + rq.amount ELSE debited[u]]
        /\ Continue(s, [rq EXCEPT !.pc = "redeem_insert"])
  /\ UNCHANGED <<build, user_actions, shopify, received, refunded>>

(* INSERT INTO user_actions (user_id, action_type, points_awarded) *)
RedeemInsertAction(s) ==
  LET rq == reqs[s] IN
  /\ rq.pc = "redeem_insert"
  /\ \/ /\ Fail(s, rq, 500, "query failed")
        /\ UNCHANGED user_actions
     \/ /\ user_actions' = Append(user_actions,
                             RedeemActionRow(rq.user.user_id, rq.redeemType, rq.amount))
        /\ Continue(s, [rq EXCEPT !.pc = "redeem_create"])
  /\ UNCHANGED <<build, users, shopify, received, debited, refunded>>

(* Step 5: createShopifyGiftCard is not defined anywhere, so the gift_card *)
(* branch throws a ReferenceError; the other two branches call             *)
(* createShopifyDiscountCode, which throws or returns {code, discountId}.  *)
(* Whatever is thrown lands in the catch block: 500, nothing undone.       *)
RedeemCreateFailed_Swallowed(s, rq) == Continue(s, [rq EXCEPT !.pc = "redeem_save"])

RedeemCreateFailed_AnswersOk(s, rq) == Finish(s, rq, 200, "", NULL, rq.newPoints)

(* createShopifyDiscountCode throws 'Failed to create discount code' and   *)
(* the catch block of the handler answers 500.                             *)
RedeemCreateFailed(s, rq) == Fail(s, rq, 500, "Failed to create discount code")

RedeemCreateCode(s) ==
  LET rq == reqs[s]
      n == Len(shopify) + 1
      called == [rq EXCEPT !.calls = rq.calls + 1] IN
  /\ rq.pc = "redeem_create"
  /\ \/ /\ rq.redeemType = "gift_card"
        /\ Fail(s, rq, 500, "createShopifyGiftCard is not defined")
        /\ UNCHANGED shopify
     \/ /\ rq.redeemType # "gift_card"
        /\ CreateThrowsBeforeFetch(rq.redeemValue, NoOptions)
        /\ Fail(s, rq, 500, "amountOff.replace is not a function")
        /\ UNCHANGED shopify
     \/ /\ rq.redeemType # "gift_card"
        /\ ~CreateThrowsBeforeFetch(rq.redeemValue, NoOptions)
        /\ \/ /\ RedeemCreateFailed(s, called)
              /\ UNCHANGED shopify
           \/ /\ shopify' = Append(shopify,
                              BasicCodeDiscount(rq.redeemValue, rq.amount, NoOptions, n, n))
              /\ Continue(s, [called EXCEPT !.generatedCode = CreateResult(shopify', n).code,
                                            !.discountId = CreateResult(shopify', n).discountId,
                                            !.pc = "redeem_save"])
  /\ UNCHANGED <<build, users, user_actions, received, debited, refunded>>

(* UPDATE users SET last_discount_code = ?, discount_code_id = ?,          *)
(* points = ? WHERE user_id = ?, then the 200 response.                    *)
RedeemSavedRow_CodeOnly(row, generatedCode, discountId, newPoints) ==
  [row EXCEPT !.last_discount_code = generatedCode, !.points = newPoints]

RedeemSavedRow(row, generatedCode, discountId, newPoints) ==
  [row EXCEPT !.last_discount_code = generatedCode,
              !.discount_code_id = discountId,
              !.points = newPoints]

RedeemSaveCode(s) ==
  LET rq == reqs[s] IN
  /\ rq.pc = "redeem_save"
  /\ \/ /\ Fail(s, rq, 500, "query failed")
        /\ UNCHANGED users
     \/ /\ users' = [u \in UserIds |->
                      IF u = rq.user.user_id
                      THEN RedeemSavedRow(users[u], rq.generatedCode, rq.discountId, rq.newPoints)
                      ELSE users[u]]
        /\ Finish(s, rq, 200, "", rq.generatedCode, rq.newPoints)
  /\ UNCHANGED <<build, user_actions, shopify, received, debited, refunded>>

(* --------------- POST /api/referral/mark-discount-used ----------------- *)
MissingMarkParams(email, usedCode) == FalsyString(email) \/ FalsyColumn(usedCode)

SelectByEmailAndCode_IgnoreCode(email, usedCode) == SelectByEmail(email)

SelectByEmailAndCode_NullMatches(email, usedCode) ==
  {row \in SelectByEmail(email) :
     row.last_discount_code = NULL \/ row.last_discount_code = usedCode}

(* SELECT * FROM users WHERE email = ? AND last_discount_code = ? *)
SelectByEmailAndCode(email, usedCode) ==
  {row \in SelectByEmail(email) :
     row.last_discount_code # NULL /\ row.last_discount_code = usedCode}

(* The UPDATE of mark-discount-used: server.js clears last_discount_code   *)
(* only, part_000 clears discount_code_id with it.                         *)
MarkClearedRow(row, b) ==
  IF b = "server.js" THEN [row EXCEPT !.last_discount_code = NULL]
  ELSE [row EXCEPT !.last_discount_code = NULL, !.discount_code_id = NULL]

(* After the UPDATE server.js answers at once; part_000 first deactivates  *)
(* the Shopify discount when the selected row had an id.                   *)
MarkDeactivates(b, user) == b # "server.js" /\ ~FalsyColumn(user.discount_code_id)

MarkRequest(body) ==
  [Idle EXCEPT !.op = "mark-discount-used", !.email = body.email, !.usedCode = body.usedCode]

ReceiveMarkUsed(s) ==
  \E body \in MarkBodies :
    LET rq == MarkRequest(body) IN
    \/ /\ MissingMarkParams(rq.email, rq.usedCode)
       /\ Reject(s, rq, 400, "Missing email or usedCode.")
    \/ /\ ~MissingMarkParams(rq.email, rq.usedCode)
       /\ \/ Reject(s, rq, 500, "Internal server error")
          \/ Accept(s, rq, "mark_select")

MarkSelect(s) ==
  LET rq == reqs[s]
      rows == SelectByEmailAndCode(rq.email, rq.usedCode) IN
  /\ rq.pc = "mark_select"
  /\ \/ Fail(s, rq, 500, "Internal server error")
     \/ /\ rows = {}
        /\ Fail(s, rq, 404, "User with that code not found or code does not match.")
     \/ \E user \in rows : Continue(s, [rq EXCEPT !.user = user, !.pc = "mark_clear"])
  /\ UNCHANGED <<build, users, user_actions, shopify, received, debited, refunded>>

MarkClear(s) ==
  LET rq == reqs[s] IN
  /\ rq.pc = "mark_clear"
  /\ \/ /\ Fail(s, rq, 500, "Internal server error")
        /\ UNCHANGED users
     \/ /\ users' = [u \in UserIds |->
                      IF users[u].email = rq.email THEN MarkClearedRow(users[u], build)
                      ELSE users[u]]
        /\ IF MarkDeactivates(build, rq.user)
           THEN Continue(s, [rq EXCEPT !.pc = "mark_deactivate"])
           ELSE Finish(s, rq, 200, "", NULL, 0)
  /\ UNCHANGED <<build, user_actions, shopify, received, debited, refunded>>

(* try { await deactivateShopifyDiscount(id) } catch { log }, then 200.    *)
MarkDeactivate(s) ==
  LET rq == reqs[s] IN
  /\ rq.pc = "mark_deactivate"
  /\ \/ UNCHANGED shopify
     \/ shopify' = Deactivated(shopify, rq.user.discount_code_id)
  /\ Finish(s, [rq EXCEPT !.calls = rq.calls + 1], 200, "", NULL, 0)
  /\ UNCHANGED <<build, users, user_actions, received, debited, refunded>>

(* ----------------- POST /api/referral/cancel-redeem -------------------- *)
MissingCancelParams(email, pointsToRefund) ==
  FalsyString(email) \/ FalsyNumber(pointsToRefund)

CancelNewPoints_Overwrite(userPoints, pointsToRefund) == parseInt(pointsToRefund)

CancelNewPoints(userPoints, pointsToRefund) == userPoints + parseInt(pointsToRefund)

CancelDeactivates(user) == ~FalsyColumn(user.discount_code_id)

(* UPDATE users SET points = ?, last_discount_code = NULL,                 *)
(* discount_code_id = NULL WHERE email = ?                                 *)
CancelRefundedRow(row, newPoints) ==
  [row EXCEPT !.points = newPoints, !.last_discount_code = NULL, !.discount_code_id = NULL]

CancelRequest(body) ==
  [Idle EXCEPT !.op = "cancel-redeem", !.email = body.email, !.amount = body.amount]

ReceiveCancelRedeem(s) ==
  \E body \in CancelBodies :
    LET rq == CancelRequest(body) IN
    \/ /\ MissingCancelParams(rq.email, rq.amount)
       /\ Reject(s, rq, 400, "Missing email or points to refund.")
    \/ /\ ~MissingCancelParams(rq.email, rq.amount)
       /\ \/ Reject(s, rq, 500, "Failed to refund points.")
          \/ Accept(s, rq, "cancel_select")

CancelSelect(s) ==
  LET rq == reqs[s]
      rows == SelectByEmail(rq.email) IN
  /\ rq.pc = "cancel_select"
  /\ \/ Fail(s, rq, 500, "Failed to refund points.")
     \/ /\ rows = {}
        /\ Fail(s, rq, 404, "User not found.")
     \/ \E user \in rows :
          Continue(s, [rq EXCEPT !.user = user,
                                 !.newPoints = CancelNewPoints(user.points, rq.amount),
                                 !.pc = IF CancelDeactivates(user) THEN "cancel_deactivate"
                                        ELSE "cancel_update"])
  /\ UNCHANGED <<build, users, user_actions, shopify, received, debited, refunded>>

CancelDeactivateFailed_Propagated(s, rq) == Fail(s, rq, 500, "Failed to refund points.")

(* catch (err) { console.error(...) }: the error of the deactivation is    *)
(* logged and the handler goes on to its UPDATE.                           *)
CancelDeactivateFailed(s, rq) == Continue(s, [rq EXCEPT !.pc = "cancel_update"])

(* try { await deactivateShopifyDiscount(id) } catch { log } *)
CancelDeactivate(s) ==
  LET rq == reqs[s]
      called == [rq EXCEPT !.calls = rq.calls + 1] IN
  /\ rq.pc = "cancel_deactivate"
  /\ \/ /\ UNCHANGED shopify
        /\ CancelDeactivateFailed(s, called)
     \/ /\ shopify' = Deactivated(shopify, rq.user.discount_code_id)
        /\ Continue(s, [called EXCEPT !.pc = "cancel_update"])
  /\ UNCHANGED <<build, users, user_actions, received, debited, refunded>>

CancelUpdate(s) ==
  LET rq == reqs[s] IN
  /\ rq.pc = "cancel_update"
  /\ \/ /\ Fail(s, rq, 500, "Failed to refund points.")
        /\ UNCHANGED <<users, refunded>>
     \/ /\ users' = [u \in UserIds |->
                      IF users[u].email = rq.email THEN CancelRefundedRow(users[u], rq.newPoints)
                      ELSE users[u]]
        /\ refunded' = [u \in UserIds |->
                         IF users[u].email = rq.email THEN refunded[u] + parseInt(rq.amount)
                         ELSE refunded[u]]
        /\ Finish(s, rq, 200, "", NULL, rq.newPoints)
  /\ UNCHANGED <<build, user_actions, shopify, received, debited>>

(* ---------------- POST /api/referral/redeem-milestone ------------------ *)
(* milestoneRewards: the thresholds that have a reward, per source file.   *)
MilestoneRewards(b) == IF b = "server.js" THEN {10, 20, 30, 40, 50} ELSE {5, 10, 15}

MilestoneItemRef(b, milestonePoints) ==
  IF b = "server.js" THEN "productVariantId" ELSE "collectionId"

InvalidMilestoneRequest(b, email, milestonePoints) ==
  FalsyString(email) \/ FalsyNumber(milestonePoints) \/ milestonePoints \notin MilestoneRewards(b)

NotEnoughReferrals_Reversed(referral_count, milestonePoints) ==
  milestonePoints < referral_count

NotEnoughReferrals(referral_count, milestonePoints) == referral_count < milestonePoints

AlreadyRedeemed_NotChecked(redeemedMilestones, milestonePoints) == FALSE

AlreadyRedeemed(redeemedMilestones, milestonePoints) ==
  milestonePoints \in DOMAIN redeemedMilestones

(* redeemedMilestones[milestonePoints] = discountCode on the parsed copy.  *)
WithMilestone(redeemedMilestones, milestonePoints, discountCode) ==
  [t \in DOMAIN redeemedMilestones \cup {milestonePoints} |->
     IF t = milestonePoints THEN discountCode ELSE redeemedMilestones[t]]

MilestoneOptions(b, milestonePoints) ==
  [rewardType |-> "free_product", itemRef |-> MilestoneItemRef(b, milestonePoints)]

MilestoneRequest(body) ==
  [Idle EXCEPT !.op = "redeem-milestone", !.email = body.email, !.amount = body.amount]

ReceiveRedeemMilestone(s) ==
  \E body \in MilestoneBodies :
    LET rq == MilestoneRequest(body) IN
    \/ /\ InvalidMilestoneRequest(build, rq.email, rq.amount)
       /\ Reject(s, rq, 400, "Invalid request.")
    \/ /\ ~InvalidMilestoneRequest(build, rq.email, rq.amount)
       /\ \/ Reject(s, rq, 500, "Server error")
          \/ Accept(s, rq, "milestone_select")

MilestoneSelect(s) ==
  LET rq == reqs[s]
      rows == SelectByEmail(rq.email) IN
  /\ rq.pc = "milestone_select"
  /\ \/ Fail(s, rq, 500, "Server error")
     \/ /\ rows = {}
        /\ Fail(s, rq, 404, "User not found.")
     \/ \E user \in rows :
          IF NotEnoughReferrals(user.referral_count, rq.amount)
          THEN Fail(s, [rq EXCEPT !.user = user], 400, "You need more referrals.")
          ELSE IF AlreadyRedeemed(user.milestones, rq.amount)
          THEN Fail(s, [rq EXCEPT !.user = user], 400, "Milestone already redeemed.")
          ELSE Continue(s, [rq EXCEPT !.user = user, !.pc = "milestone_create"])
  /\ UNCHANGED <<build, users, user_actions, shopify, received, debited, refunded>>

MilestoneCreateCode(s) ==
  LET rq == reqs[s]
      n == Len(shopify) + 1
      options == MilestoneOptions(build, rq.amount)
      called == [rq EXCEPT !.calls = rq.calls + 1] IN
  /\ rq.pc = "milestone_create"
  /\ \/ /\ CreateThrowsBeforeFetch("100", options)
        /\ Fail(s, rq, 500, "Server error")
        /\ UNCHANGED shopify
     \/ /\ ~CreateThrowsBeforeFetch("100", options)
        /\ \/ /\ Fail(s, called, 500, "Server error")
              /\ UNCHANGED shopify
           \/ /\ shopify' = Append(shopify, BasicCodeDiscount("100", 0, options, n, n))
              /\ Continue(s, [called EXCEPT !.generatedCode = CreateResult(shopify', n).code,
                                            !.discountId = CreateResult(shopify', n).discountId,
                                            !.pc = "milestone_save"])
  /\ UNCHANGED <<build, users, user_actions, received, debited, refunded>>

MilestoneSavedRow_AsActiveCode(row, redeemedMilestones, milestonePoints, discountCode) ==
  [row EXCEPT !.milestones = WithMilestone(redeemedMilestones, milestonePoints, discountCode),
              !.last_discount_code = discountCode]

(* The row after UPDATE users SET referal_discount_code = ?: no other      *)
(* column is written.                                                      *)
MilestoneSavedRow(row, redeemedMilestones, milestonePoints, discountCode) ==
  [row EXCEPT !.milestones = WithMilestone(redeemedMilestones, milestonePoints, discountCode)]

(* UPDATE users SET referal_discount_code = ? WHERE user_id = ?, with the  *)
(* JSON text of the copy parsed at the SELECT plus the new key.            *)
MilestoneSave(s) ==
  LET rq == reqs[s] IN
  /\ rq.pc = "milestone_save"
  /\ \/ /\ Fail(s, rq, 500, "Server error")
        /\ UNCHANGED users
     \/ /\ users' = [u \in UserIds |->
                      IF u = rq.user.user_id
                      THEN MilestoneSavedRow(users[u], rq.user.milestones, rq.amount,
                                             rq.generatedCode)
                      ELSE users[u]]
        /\ Finish(s, rq, 200, "", rq.generatedCode, 0)
  /\ UNCHANGED <<build, user_actions, shopify, received, debited, refunded>>

(* ---------------------------- specification ---------------------------- *)
(* The discount behind a code the user already holds at start. *)
InitDiscount == BasicCodeDiscount("dynamic", Affordable, NoOptions, 1, 1)

Init ==
  /\ build \in Builds
  /\ \E active \in BOOLEAN :
       /\ users = [u \in UserIds |->
                    [user_id |-> u, email |-> UserEmail, points |-> InitPoints,
                     referral_count |-> ReferralCount,
                     last_discount_code |-> IF active THEN <<"POINTS", 1>> ELSE NULL,
                     discount_code_id |-> IF active THEN <<"DiscountCodeBasic", 1>> ELSE NULL,
                     milestones |-> <<>>]]
       /\ shopify = IF active THEN <<InitDiscount>> ELSE <<>>
  /\ user_actions = <<>>
  /\ reqs = [s \in Slots |-> Idle]
  /\ received = 0
  /\ checkedOut = 0
  /\ debited = [u \in UserIds |-> 0]
  /\ refunded = [u \in UserIds |-> 0]
  /\ lastRedeem = NoRedeem
  /\ lastDone = NoDone
  /\ response = NoResponse

Next ==
  \E s \in Slots :
    \/ ReceiveRedeem(s)
    \/ RedeemSelect(s)
    \/ RedeemUpdatePoints(s)
    \/ RedeemInsertAction(s)
    \/ RedeemCreateCode(s)
    \/ RedeemSaveCode(s)
    \/ ReceiveMarkUsed(s)
    \/ MarkSelect(s)
    \/ MarkClear(s)
    \/ MarkDeactivate(s)
    \/ ReceiveCancelRedeem(s)
    \/ CancelSelect(s)
    \/ CancelDeactivate(s)
    \/ CancelUpdate(s)
    \/ ReceiveRedeemMilestone(s)
    \/ MilestoneSelect(s)
    \/ MilestoneCreateCode(s)
    \/ MilestoneSave(s)

Spec == Init /\ [][Next]_vars

(* What a handler does without waiting for Shopify: its database          *)
(* statements, which the pool runs in turn, and the part of step 5 of      *)
(* redeem that throws before any fetch.  The fetch calls to the Admin API  *)
(* pass no timeout and no abort signal to node-fetch, so the steps that    *)
(* wait for Shopify are left out: nothing in the code makes them happen.   *)
LocalStep(s) ==
  \/ RedeemSelect(s) \/ RedeemUpdatePoints(s) \/ RedeemInsertAction(s) \/ RedeemSaveCode(s)
  \/ MarkSelect(s) \/ MarkClear(s)
  \/ CancelSelect(s) \/ CancelUpdate(s)
  \/ MilestoneSelect(s) \/ MilestoneSave(s)
  \/ /\ RedeemCreateCode(s)
     /\ \/ reqs[s].redeemType = "gift_card"
        \/ CreateThrowsBeforeFetch(reqs[s].redeemValue, NoOptions)

LiveSpec == Spec /\ \A s \in Slots : WF_vars(LocalStep(s))

(* ------------------------------ properties ----------------------------- *)
Quiescent == InFlight = {}

RECURSIVE SumAwarded(_, _)
SumAwarded(actions, u) ==
  IF actions = <<>> THEN 0
  ELSE (IF Head(actions).user_id = u THEN Head(actions).points_awarded ELSE 0)
       + SumAwarded(Tail(actions), u)

(* C1: whenever no request is in flight, every user's points equal the     *)
(* initial points plus the sum of the point deltas logged for that user.   *)
C1_LedgerConsistent ==
  Quiescent => \A u \in UserIds : users[u].points = InitPoints + SumAwarded(user_actions, u)

(* C2: of two concurrent redeem requests for the same user, none writes a  *)
(* debit computed from a stale balance: while one of them is about to      *)
(* write its new balance, the stored balance is still the one it read.     *)
C2_NoStaleDebit ==
  \A s, t \in Slots :
    (/\ s # t
     /\ reqs[s].pc = "redeem_update"
     /\ reqs[t].op = "redeem"
     /\ reqs[t].user.user_id = reqs[s].user.user_id)
    => users[reqs[s].user.user_id].points = reqs[s].user.points

(* C3: once all requests have run to completion, every balance is the      *)
(* initial balance minus the debits applied plus the refunds applied.      *)
C3_NoLostUpdate ==
  Quiescent => \A u \in UserIds : users[u].points = InitPoints - debited[u] + refunded[u]

(* C4: last_discount_code and discount_code_id of a user are both present  *)
(* or both absent, in every reachable state.                               *)
C4_PairInvariant ==
  \A u \in UserIds :
    (users[u].last_discount_code = NULL) <=> (users[u].discount_code_id = NULL)

(* C5: a redeem whose pointsToRedeem exceeds the user's points when the    *)
(* balance is read ends there: it answers 400 'Not enough points' (500 if  *)
(* the read itself fails), having made no provider call, and the users     *)
(* table, the action log and the shop are left as they were.               *)
C5_InsufficientBalanceRejected ==
  [][\A s \in Slots :
       (/\ reqs[s].pc = "redeem_select"
        /\ reqs'[s].pc # "redeem_select"
        /\ SelectByEmail(reqs[s].email) # {}
        /\ RowOf(reqs[s].email).points < reqs[s].amount)
       => /\ reqs'[s].pc = "idle"
          /\ reqs[s].calls = 0
          /\ response'.op = "redeem"
          /\ \/ response'.status = 400 /\ response'.error = "Not enough points to redeem."
             \/ response'.status = 500 /\ response'.error = "query failed"
          /\ UNCHANGED <<users, user_actions, shopify>>]_vars

C5_Witness ==
  /\ response.op = "redeem"
  /\ response.error = "Not enough points to redeem."
  /\ \E u \in UserIds : users[u].points < Affordable

(* C6: a redeem request with pointsToRedeem <= 0 or with a missing field   *)
(* answers 400 and changes neither the users table, nor the action log,    *)
(* nor the shop: no step of its handler does anything else.                *)
C6_RedeemValidatesInput ==
  [][\A s \in Slots :
       (/\ reqs[s].op = "redeem"
        /\ reqs'[s].pc # reqs[s].pc
        /\ \/ reqs[s].amount <= 0
           \/ FalsyString(reqs[s].email)
           \/ FalsyString(reqs[s].redeemType)
           \/ FalsyString(reqs[s].redeemValue))
       => /\ reqs'[s].pc = "idle"
          /\ response'.status = 400
          /\ UNCHANGED <<users, user_actions, shopify>>]_vars

(* C7: the points of every user are non-negative in every reachable state. *)
C7_NonNegativePoints == \A u \in UserIds : users[u].points >= 0

(* C8: a successful redeem of n points followed directly by a successful   *)
(* cancel-redeem of n, with no other request for the user around them,     *)
(* leaves the balance the redeem found, and no active code and no id.      *)
C8_RoundTrip ==
  (lastRedeem.kind = "redeem-cancel" /\ response.op = "cancel-redeem")
  => /\ RowOf(lastRedeem.email).points = lastRedeem.prePoints
     /\ response.newPoints = lastRedeem.prePoints
     /\ RowOf(lastRedeem.email).last_discount_code = NULL
     /\ RowOf(lastRedeem.email).discount_code_id = NULL

C8_Witness ==
  /\ lastRedeem.kind = "redeem-cancel"
  /\ response.op = "cancel-redeem"
  /\ lastRedeem.amount = Affordable

(* C9: when the Shopify call of a redeem fails after the debit, the        *)
(* handler answers 500 with no code and ends; the users table (so the      *)
(* debited balance and the code fields) and the action log, which holds    *)
(* the entry of the debit, stay as they are.                               *)
C9_IssueFailureKeepsDebit ==
  [][\A s \in Slots :
       (/\ reqs[s].pc = "redeem_create"
        /\ reqs'[s].pc # "redeem_create"
        /\ reqs[s].redeemType # "gift_card"
        /\ ~CreateThrowsBeforeFetch(reqs[s].redeemValue, NoOptions)
        /\ shopify' = shopify)
       => /\ reqs'[s].pc = "idle"
          /\ response'.op = "redeem"
          /\ response'.status = 500
          /\ response'.discountCode = NULL
          /\ users' = users
          /\ user_actions' = user_actions
          /\ \E i \in 1..Len(user_actions) :
               user_actions[i] = RedeemActionRow(reqs[s].user.user_id, reqs[s].redeemType,
                                                 reqs[s].amount)]_vars

C9_Witness ==
  /\ response.op = "redeem"
  /\ response.error = "Failed to create discount code"
  /\ \E u \in UserIds : debited[u] = Affordable /\ users[u].points = InitPoints - Affordable
                        /\ users[u].last_discount_code = NULL

(* C10: after a redeem that succeeded with no other request around it, the *)
(* response carries the code Shopify returned and the balance found minus  *)
(* pointsToRedeem, and the user row holds that code, the id of the         *)
(* discount and that balance.                                              *)
C10_RedeemCommits ==
  (lastRedeem.kind = "redeem" /\ response.op = "redeem")
  => LET n == Len(shopify)
         row == RowOf(lastRedeem.email) IN
     /\ n > 0
     /\ response.status = 200
     /\ response.discountCode = shopify[n].code
     /\ response.newPoints = lastRedeem.prePoints - lastRedeem.amount
     /\ row.last_discount_code = shopify[n].code
     /\ row.discount_code_id = <<"DiscountCodeBasic", n>>
     /\ row.points = response.newPoints

C10_Witness ==
  /\ lastRedeem.kind = "redeem"
  /\ response.op = "redeem"
  /\ lastRedeem.amount = Affordable
  /\ RowOf(lastRedeem.email).points = InitPoints - Affordable

(* The positions at which a handler awaits a database statement. *)
DbSteps == {"redeem_select", "redeem_update", "redeem_insert", "redeem_save",
            "mark_select", "mark_clear", "cancel_select", "cancel_update",
            "milestone_select", "milestone_save"}

(* C11: when a database statement of a request fails (the handler answers  *)
(* 500 from a database step), the balance of the user is the one the       *)
(* request found when it arrived, for a request that ran alone.            *)
C11_FailureAtomic ==
  [][\A s \in Slots :
       (/\ reqs[s].pc \in DbSteps
        /\ reqs[s].solo
        /\ reqs'[s].pc = "idle"
        /\ response'.status = 500)
       => \A u \in UserIds :
            users[u].email = reqs[s].email => users'[u].points = reqs[s].prePoints]_vars

(* C12: mark-discount-used called twice in a row with the same code: after *)
(* the first call (200) the stored code is NULL; the second call answers   *)
(* 404 (500 if its SELECT fails) and no step of it changes the users table *)
(* or the shop.                                                            *)
C12_MarkTwice ==
  [][/\ (response'.op = "mark-discount-used" /\ response'.status = 200
         /\ lastDone'.times = 1)
        => \A u \in UserIds :
             users'[u].email = lastDone'.email => users'[u].last_discount_code = NULL
     /\ \A s \in Slots :
          (/\ reqs[s].op = "mark-discount-used"
           /\ reqs'[s].pc # reqs[s].pc
           /\ Repeats(reqs[s]))
          => /\ reqs'[s].pc = "idle"
             /\ reqs[s].calls = 0
             /\ response'.status \in {404, 500}
             /\ UNCHANGED <<users, user_actions, shopify>>]_vars

C12_Witness ==
  /\ lastDone.op = "mark-discount-used"
  /\ lastDone.times = 2
  /\ lastDone.status = 404
  /\ response.op = "mark-discount-used"

C14_MarkDeactivatesStoredId ==
  [][\A s \in Slots :
       (/\ reqs[s].op = "mark-discount-used"
        /\ reqs[s].pc # "idle"
        /\ reqs'[s].pc = "idle"
        /\ response'.status = 200)
       => /\ ~FalsyColumn(reqs[s].user.discount_code_id) =>
               /\ reqs[s].pc = "mark_deactivate"
               /\ users' = users
          /\ reqs[s].solo =>
               \A u \in UserIds :
                 users[u].email = reqs[s].email => users'[u].last_discount_code = NULL]_vars

(* C15: a cancel-redeem that found its user never answers from the         *)
(* deactivation step: whatever Shopify does there, the handler goes on to  *)
(* its UPDATE with the users table untouched.  That UPDATE, unless the     *)
(* statement itself fails (500, nothing changed), stores the balance read  *)
(* plus pointsToRefund, sets code and id to NULL, and the 200 response     *)
(* carries that balance.                                                   *)
C15_CancelAlwaysRefunds ==
  [][\A s \in Slots :
       /\ (/\ reqs[s].pc = "cancel_select"
           /\ reqs'[s].pc # "cancel_select"
           /\ SelectByEmail(reqs[s].email) # {})
          => \/ reqs'[s].pc \in {"cancel_deactivate", "cancel_update"}
             \/ reqs'[s].pc = "idle" /\ response'.status = 500
       /\ (/\ reqs[s].pc = "cancel_deactivate"
           /\ reqs'[s].pc # "cancel_deactivate")
          => /\ reqs'[s].pc = "cancel_update"
             /\ response' = NoResponse
             /\ users' = users
       /\ (/\ reqs[s].pc = "cancel_update"
           /\ reqs'[s].pc # "cancel_update")
          => /\ reqs'[s].pc = "idle"
             /\ response'.op = "cancel-redeem"
             /\ \/ response'.status = 500 /\ users' = users
                \/ /\ response'.status = 200
                   /\ response'.newPoints = reqs[s].user.points + reqs[s].amount
                   /\ \A u \in UserIds :
                        users[u].email = reqs[s].email =>
                          /\ users'[u].points = reqs[s].user.points + reqs[s].amount
                          /\ users'[u].last_discount_code = NULL
                          /\ users'[u].discount_code_id = NULL]_vars

(* The only request was a cancel-redeem for a user holding a discount id:  *)
(* the deactivation was attempted and failed, the refund was made.         *)
C15_Witness ==
  /\ response.op = "cancel-redeem"
  /\ response.status = 200
  /\ received = 1
  /\ Len(shopify) = 1 /\ shopify[1].endsAt = 0
  /\ \E u \in UserIds : /\ refunded[u] = Affordable
                        /\ users[u].points = InitPoints + Affordable
                        /\ users[u].last_discount_code = NULL
                        /\ users[u].discount_code_id = NULL

C17_MilestoneRequiresReferrals ==
  [][/\ (response'.op = "redeem-milestone" /\ response'.error = "Invalid request.")
        => UNCHANGED <<users, user_actions, shopify>>
     /\ \A s \in Slots :
          /\ reqs'[s].op = "redeem-milestone"
             => reqs'[s].amount \in MilestoneRewards(build)
          /\ (/\ reqs[s].pc = "milestone_select"
              /\ reqs'[s].pc # "milestone_select"
              /\ \E u \in UserIds : /\ users[u].email = reqs[s].email
                                    /\ users[u].referral_count < reqs[s].amount)
             => /\ reqs'[s].pc = "idle"
                /\ reqs[s].calls = 0
                /\ response'.status \in {400, 500}
                /\ UNCHANGED <<users, user_actions, shopify>>
          /\ (/\ reqs[s].op = "redeem-milestone"
              /\ reqs'[s].pc # reqs[s].pc
              /\ (shopify' # shopify \/ users' # users))
             => /\ reqs[s].amount \in MilestoneRewards(build)
                /\ reqs[s].user.referral_count >= reqs[s].amount]_vars

C17_Witness ==
  /\ response.op = "redeem-milestone"
  /\ response.status = 400
  /\ response.error = "You need more referrals."
  /\ shopify = <<>>

(* C18: no step of a redeem-milestone request, whether it answers 200, a   *)
(* rejection or an error, changes the points, the code or the discount id  *)
(* of a user, or the action log.                                           *)
C18_MilestoneFrame ==
  [][(\/ response'.op = "redeem-milestone"
      \/ \E s \in Slots : /\ reqs'[s] # reqs[s]
                           /\ (reqs[s].op = "redeem-milestone"
                               \/ reqs'[s].op = "redeem-milestone"))
     => /\ user_actions' = user_actions
        /\ \A u \in UserIds :
             /\ users'[u].points = users[u].points
             /\ users'[u].last_discount_code = users[u].last_discount_code
             /\ users'[u].discount_code_id = users[u].discount_code_id]_vars

C18_Witness ==
  /\ response.op = "redeem-milestone"
  /\ response.status = 200
  /\ received = 1
  /\ \E u \in UserIds : /\ DOMAIN users[u].milestones # {}
                        /\ users[u].points = InitPoints

(* C19: every request a handler has started on is eventually answered,     *)
(* the handler being back to idle, even when Shopify never answers.        *)
C19_EveryRequestAnswered ==
  \A s \in Slots : (reqs[s].pc # "idle") ~> (reqs[s].pc = "idle")

(* C20: cancel-redeem made a second time with the same body, directly      *)
(* after a first one that answered 200, leaves the user row as the first   *)
(* call left it: the same points, and no code and no id.                   *)
C20_CancelIdempotent ==
  [][\A s \in Slots :
       (/\ reqs[s].op = "cancel-redeem"
        /\ Repeats(reqs[s])
        /\ reqs[s].pc # "idle"
        /\ reqs'[s].pc = "idle")
       => \A u \in UserIds :
            users[u].email = reqs[s].email =>
              /\ users'[u].points = reqs[s].prePoints
              /\ users'[u].last_discount_code = NULL
              /\ users'[u].discount_code_id = NULL]_vars

(* C21: after a redeem that ran alone and answered 200, no other request   *)
(* having been received (so nothing was consumed, cancelled or             *)
(* deactivated), every discount of the shop is the one a user row points   *)
(* to with its discount_code_id.                                           *)
C21_LiveCodesAreStored ==
  (lastRedeem.kind = "redeem" /\ received = 1 /\ Quiescent)
  => \A i \in 1..Len(shopify) :
       \E u \in UserIds : /\ users[u].discount_code_id = <<"DiscountCodeBasic", i>>
                          /\ users[u].last_discount_code = shopify[i].code

(* C22: every discount of the shop has usageLimit 1 and applies once per   *)
(* customer; a free-product discount (what redeem-milestone creates)       *)
(* combines with neither order nor product discounts, a fixed-amount       *)
(* discount (what redeem creates) combines with both.                      *)
C22_IssuedCodePolicy ==
  \A i \in 1..Len(shopify) :
    /\ shopify[i].usageLimit = 1
    /\ shopify[i].appliesOncePerCustomer
    /\ shopify[i].rewardType = "free_product"
         => ~shopify[i].orderDiscounts /\ ~shopify[i].productDiscounts
    /\ shopify[i].rewardType = "fixed_amount"
         => shopify[i].orderDiscounts /\ shopify[i].productDiscounts
    /\ shopify[i].rewardType \in {"free_product", "fixed_amount"}

C22_Witness ==
  /\ \E i \in 1..Len(shopify) : shopify[i].rewardType = "free_product"
  /\ \E i \in 1..Len(shopify) : shopify[i].rewardType = "fixed_amount"
  /\ received > 0

(* C23: the steps of a redeem come in one order.  The balance is written   *)
(* after the SELECT, the log entry after the balance, the Shopify call is  *)
(* made after the log entry is in the table, the row gets code and id only *)
(* after Shopify has created the discount whose code the handler holds,    *)
(* and 200 is answered from that last step only.                           *)
C23_RedeemStepOrder ==
  [][\A s \in Slots :
       (reqs[s].op = "redeem" /\ reqs'[s].pc # reqs[s].pc)
       => /\ reqs'[s].pc = "redeem_update" => reqs[s].pc = "redeem_select"
          /\ reqs'[s].pc = "redeem_insert"
               => /\ reqs[s].pc = "redeem_update"
                  /\ users'[reqs[s].user.user_id].points = reqs[s].newPoints
          /\ reqs'[s].pc = "redeem_create"
               => /\ reqs[s].pc = "redeem_insert"
                  /\ Len(user_actions') = Len(user_actions) + 1
                  /\ user_actions'[Len(user_actions')].user_id = reqs[s].user.user_id
          /\ shopify' # shopify
               => /\ reqs[s].pc = "redeem_create"
                  /\ \E i \in 1..Len(user_actions) :
                       /\ user_actions[i].user_id = reqs[s].user.user_id
                       /\ user_actions[i].points_awarded = -reqs[s].amount
          /\ reqs'[s].pc = "redeem_save"
               => /\ reqs[s].pc = "redeem_create"
                  /\ Len(shopify') = Len(shopify) + 1
                  /\ reqs'[s].generatedCode = shopify'[Len(shopify')].code
                  /\ reqs'[s].discountId = <<"DiscountCodeBasic", Len(shopify')>>
          /\ (\E u \in UserIds :
                \/ users'[u].last_discount_code # users[u].last_discount_code
                \/ users'[u].discount_code_id # users[u].discount_code_id)
               => reqs[s].pc = "redeem_save" /\ reqs[s].generatedCode # NULL
          /\ (reqs'[s].pc = "idle" /\ response'.status = 200)
               => reqs[s].pc = "redeem_save" /\ reqs[s].calls = 1]_vars

C23_Witness ==
  /\ response.op = "redeem"
  /\ response.status = 200
  /\ Len(user_actions) = 1
  /\ Len(shopify) > 0
  /\ response.discountCode = shopify[Len(shopify)].code
  /\ \E u \in UserIds : users[u].last_discount_code = response.discountCode

(* C24: while a cancel-redeem that runs alone waits for the deactivation   *)
(* of the discount, the stored balance already holds the refund: the       *)
(* balance the request found plus pointsToRefund.                          *)
C24_RefundBeforeDeactivate ==
  \A s \in Slots :
    (reqs[s].pc = "cancel_deactivate" /\ reqs[s].solo)
    => \A u \in UserIds :
         users[u].email = reqs[s].email =>
           users[u].points = reqs[s].prePoints + reqs[s].amount

(* C25: a discount Shopify never updated has no end time; one that was     *)
(* deactivated, once or several times, ends 60 seconds after its start     *)
(* time: deactivating it again leaves the same end time.                   *)
C25_DeactivateIdempotent ==
  \A i \in 1..Len(shopify) :
    /\ shopify[i].updates = 0 => shopify[i].endsAt = 0
    /\ shopify[i].updates > 0 => shopify[i].endsAt = shopify[i].startsAt + 60
    /\ Deactivated(shopify, <<"DiscountCodeBasic", i>>)[i].endsAt = shopify[i].startsAt + 60

C25_Witness ==
  \E i \in 1..Len(shopify) : shopify[i].updates = 2

C27_MilestonesOnlyGrow ==
  [][\A u \in UserIds :
       \A t \in DOMAIN users[u].milestones :
         /\ t \in DOMAIN users'[u].milestones
         /\ users'[u].milestones[t] = users[u].milestones[t]]_vars

(* C28: Shopify creates a free-product discount for a redeem-milestone     *)
(* request only when no other request for the same user and threshold has *)
(* had one created and is about to store it.                               *)
C28_OneCodePerMilestone ==
  [][\A s \in Slots :
       (/\ reqs[s].pc = "milestone_create"
        /\ reqs'[s].pc = "milestone_save"
        /\ Len(shopify') = Len(shopify) + 1)
       => \A t \in Slots \ {s} :
            ~(/\ reqs[t].pc = "milestone_save"
              /\ reqs[t].email = reqs[s].email
              /\ reqs[t].amount = reqs[s].amount)]_vars

(* C29: a redeem that has written its debit and its log entry ends its     *)
(* step 5 either with a discount created, on its way to store code and     *)
(* id, or with the error of a failed Shopify call; whatever redeemType it  *)
(* was given, it is not turned down there for any other reason.            *)
C29_DebitedRedeemCommits ==
  [][\A s \in Slots :
       (reqs[s].pc = "redeem_create" /\ reqs'[s].pc # "redeem_create")
       => \/ reqs'[s].pc = "redeem_save" /\ reqs'[s].generatedCode # NULL
          \/ /\ reqs'[s].pc = "idle"
             /\ response'.error = "Failed to create discount code"]_vars

(* C30: the connections checked out of the pool are those held by the      *)
(* handlers in flight, one each; when no request is in flight none is      *)
(* checked out, whichever way the handlers ended.                          *)
C30_ConnectionsReleased ==
  /\ checkedOut = Cardinality({s \in Slots : reqs[s].connection})
  /\ \A s \in Slots : reqs[s].connection <=> reqs[s].pc # "idle"
  /\ Quiescent => checkedOut = 0

(* Two requests have ended, the last one on a failed Shopify call. *)
C30_Witness ==
  /\ Quiescent
  /\ received = MaxRequests
  /\ response.error = "Failed to create discount code"
  /\ checkedOut = 0

====
